---- MODULE Spec2Model ----
(***************************************************************************)
(* Model of the bulk e-mail sender: main.py (command line entry point) and *)
(* email_sender.py (class EmailSender).                                    *)
(*                                                                         *)
(* Strings are sequences of one-character strings, so that strip, split,   *)
(* lower and the address pattern are computed character by character.      *)
(***************************************************************************)
EXTENDS Integers, Sequences, FiniteSets, TLC

VARIABLES
    pc,               \* position of the single flow of control
    config,           \* self.config: [loaded, keys, delay]
    lines,            \* local lines of read_emails_from_csv (file.readlines())
    processed_emails, \* self.processed_emails
    stats,            \* self.stats
    log_file,         \* self.log_file: "unset", "open", "closed", "none"
    emails,           \* local emails of read_emails_from_csv / send_emails_from_csv
    lineNo,           \* number of lines consumed by the loop of read_emails_from_csv
    i,                \* loop index of send_emails_from_csv (enumerate from 1)
    openConns,        \* connections opened and never closed by the program
    pending,          \* exception in flight through the finally block
    exitCode,         \* process exit status, -1 while running
    hist,             \* history: what the run did (events, results, counts)
    xline,            \* extraction check: the raw input line
    xcand             \* extraction check: the candidate computed from it

vars == <<pc, config, lines, processed_emails, stats, log_file,
          emails, lineNo, i, openConns, pending, exitCode, hist,
          xline, xcand>>

-----------------------------------------------------------------------------
(* Bounds of the model *)

\* longest recipient file of a whole run of the program, in lines
MaxLines == 2

\* longest recipient file of read_emails_from_csv run on its own, in lines
MaxReadLines == 4

\* longest raw line of the extraction check, in characters
MaxLineLen == 4

-----------------------------------------------------------------------------
(* Characters and strings *)

TAB == "\t"
DQ == "\""
SQ == "'"

\* str.strip() with no argument removes whitespace
Whitespace == {" ", TAB}

\* the argument of possible_email.strip('"\'')
QuoteChars == {DQ, SQ}

\* the separators in the order the loop tries them
Separators == <<",", ";", TAB, "|">>

UpperOf == [c \in {"a", "b", "c", "e", "i", "l", "m", "s", "x"} |->
              CASE c = "a" -> "A" [] c = "b" -> "B" [] c = "c" -> "C"
                [] c = "e" -> "E" [] c = "i" -> "I" [] c = "l" -> "L"
                [] c = "m" -> "M" [] c = "s" -> "S" [] c = "x" -> "X"]

LowerLetters == DOMAIN UpperOf
UpperLetters == {UpperOf[c] : c \in LowerLetters}
Alpha == LowerLetters \cup UpperLetters
Digits == {"0", "1"}

\* str.lower() on one character
LowerChar(c) ==
    IF c \in UpperLetters THEN CHOOSE l \in LowerLetters : UpperOf[l] = c ELSE c

\* str.lower()
Lower(s) == [k \in 1..Len(s) |-> LowerChar(s[k])]

MinOf(S) == CHOOSE m \in S : \A n \in S : m <= n
MaxOf(S) == CHOOSE m \in S : \A n \in S : m >= n

\* str.strip(chars): drop the leading and trailing run of characters of chars
StripChars(s, chars) ==
    LET keep == {k \in 1..Len(s) : s[k] \notin chars}
    IN  IF keep = {} THEN <<>> ELSE SubSeq(s, MinOf(keep), MaxOf(keep))

\* str.strip()
Strip(s) == StripChars(s, Whitespace)

\* separator in line
Contains(s, c) == \E k \in 1..Len(s) : s[k] = c

\* line.split(separator)[0], for a one-character separator
SplitFirst(s, c) ==
    IF Contains(s, c)
    THEN SubSeq(s, 1, MinOf({k \in 1..Len(s) : s[k] = c}) - 1)
    ELSE s

\* the literal list of header words
HeaderWords == { <<"e","m","a","i","l">>, <<"e","m","a","i","l","s">>,
                 <<"m","a","i","l">>, <<"e","-","m","a","i","l">> }

\* line.lower() in ['email', 'emails', 'mail', 'e-mail']
IsHeader(line) == Lower(line) \in HeaderWords

\* the for-loop with its break left out: the last separator present decides
RECURSIVE SeparatorLoopNoBreak(_, _, _)
SeparatorLoopNoBreak(line, k, acc) ==
    IF k > Len(Separators) THEN acc
    ELSE IF Contains(line, Separators[k])
         THEN SeparatorLoopNoBreak(line, k + 1, Strip(SplitFirst(line, Separators[k])))
         ELSE SeparatorLoopNoBreak(line, k + 1, acc)

\* the for-loop over the separators with its break, from separator number k on
RECURSIVE SeparatorLoop(_, _, _)
SeparatorLoop(line, k, acc) ==
    IF k > Len(Separators) THEN acc
    ELSE IF Contains(line, Separators[k])
         THEN Strip(SplitFirst(line, Separators[k]))
         ELSE SeparatorLoop(line, k + 1, acc)

\* possible_email of a stripped, non-empty, non-header line
ExtractEmail(line) == StripChars(SeparatorLoop(line, 1, line), QuoteChars)

\* the character classes of the pattern
LocalChars == Alpha \cup Digits \cup {".", "_", "%", "+", "-"}
DomainChars == Alpha \cup Digits \cup {".", "-"}

\* re.match(r'^[a-zA-Z0-9._%+-]+@[a-zA-Z0-9.-]+\.[a-zA-Z]{2,}$', email.strip())
is_valid_email(email) ==
    LET s == Strip(email)
    IN  \E at \in 2..Len(s), dot \in 1..Len(s) :
          /\ s[at] = "@"
          /\ \A k \in 1..(at - 1) : s[k] \in LocalChars
          /\ dot > at + 1
          /\ s[dot] = "."
          /\ \A k \in (at + 1)..(dot - 1) : s[k] \in DomainChars
          /\ Len(s) - dot >= 2
          /\ \A k \in (dot + 1)..Len(s) : s[k] \in Alpha

-----------------------------------------------------------------------------
(* Inputs *)

\* the keys the program reads from its configuration
Keys == {"smtp_host", "smtp_port", "username", "password",
         "sender_name", "subject", "body", "delay_seconds"}

\* values of delay_seconds: time.sleep raises ValueError on a negative one
Delays == {-1, 1}

NoConfig == [loaded |-> FALSE, keys |-> {}, delay |-> 1]

\* what load_config can find: no file (environment and defaults: every key), a
\* file that does not parse, or a JSON object with all keys or all but one
ConfigSources ==
    {[state |-> "absent", keys |-> Keys, delay |-> d] : d \in Delays}
    \cup {[state |-> "malformed", keys |-> {}, delay |-> 1]}
    \cup {[state |-> "file", keys |-> Keys, delay |-> d] : d \in Delays}
    \cup {[state |-> "file", keys |-> Keys \ {k}, delay |-> d] :
            k \in Keys, d \in Delays}

AddrLower == <<"a", "@", "b", ".", "c", "c">>
AddrUpper == <<"A", "@", "b", ".", "c", "c">>

\* the lines a recipient file is made of (without their line terminator)
LinePool ==
    { <<" ">>,
      <<"M", "a", "i", "l">>,
      AddrLower,
      AddrUpper,
      <<SQ>> \o AddrLower \o <<SQ, ";", "x">>,
      <<"a", "@", "b">> }

RECURSIVE SeqsUpTo(_, _)
SeqsUpTo(S, n) ==
    IF n = 0 THEN {<<>>}
    ELSE LET shorter == SeqsUpTo(S, n - 1)
         IN  shorter \cup {Append(q, x) : q \in {r \in shorter : Len(r) = n - 1}, x \in S}

\* the contents readlines() can return
Files == SeqsUpTo(LinePool, MaxLines)
ReadFiles == SeqsUpTo(LinePool, MaxReadLines)

-----------------------------------------------------------------------------
(* Logging *)

\* log_message: the entry is printed; it reaches the file only while the file
\* is open (a write on a closed file raises, which log_message swallows)
LogMessage(h) ==
    IF log_file = "closed" THEN [h EXCEPT !.lateLogs = @ + 1] ELSE h

\* print_summary
PrintSummary(h) == [LogMessage(h) EXCEPT !.summaries = @ + 1]

-----------------------------------------------------------------------------
(* Initial state: the process starts; __init__ has set its two fields *)

Init ==
    /\ pc = "main"
    /\ config = NoConfig
    /\ lines = <<>>
    /\ processed_emails = {}
    /\ stats = [total |-> 0, sent |-> 0, failed |-> 0, invalid |-> 0, duplicates |-> 0]
    /\ log_file = "unset"
    /\ emails = <<>>
    /\ lineNo = 0
    /\ i = 0
    /\ openConns = 0
    /\ pending = "none"
    /\ exitCode = -1
    /\ hist = [events |-> <<>>, results |-> <<>>, opens |-> 0, closes |-> 0,
               summaries |-> 0, lateLogs |-> 0, critical |-> FALSE,
               readReturned |-> FALSE, totalSet |-> FALSE,
               started |-> FALSE]
    /\ xline = <<>>
    /\ xcand = <<>>

\* sys.exit(code), or falling off the end of main (code 0)
Exit(code) ==
    /\ pc' = "exit"
    /\ exitCode' = code

-----------------------------------------------------------------------------
(* main.py *)

\* main, lines 38-42: the recipient file must exist
MainCheckCsv ==
    /\ pc = "main"
    /\ \E exists \in BOOLEAN :
         IF exists
         THEN pc' = "init" /\ UNCHANGED exitCode
         ELSE Exit(1)
    /\ UNCHANGED <<config, lines, processed_emails, stats, log_file, emails,
                   lineNo, i, openConns, pending, hist, xline, xcand>>

\* EmailSender.__init__ line 26, load_config
LoadConfig ==
    /\ pc = "init"
    /\ \E src \in ConfigSources :
         IF src.state = "malformed"
         THEN /\ Exit(1)                     \* raise, main line 70
              /\ UNCHANGED config
         ELSE /\ config' = [loaded |-> TRUE, keys |-> src.keys, delay |-> src.delay]
              /\ pc' = "setup_logging"
              /\ UNCHANGED exitCode
    /\ UNCHANGED <<lines, processed_emails, stats, log_file, emails,
                   lineNo, i, openConns, pending, hist, xline, xcand>>

\* setup_logging
SetupLogging ==
    /\ pc = "setup_logging"
    /\ \E ok \in BOOLEAN :
         IF ok
         THEN /\ log_file' = "open"
              /\ hist' = [hist EXCEPT !.opens = @ + 1]
         ELSE /\ log_file' = "none"
              /\ UNCHANGED hist
    /\ pc' = "show_config"
    /\ UNCHANGED <<config, lines, processed_emails, stats, emails, lineNo, i,
                   openConns, pending, exitCode, xline, xcand>>

\* main, lines 49-56: the keys the configuration display reads
ShownKeys == {"smtp_host", "smtp_port", "username", "subject", "delay_seconds"}

ShowConfig ==
    /\ pc = "show_config"
    /\ IF ShownKeys \subseteq config.keys
       THEN pc' = "prompt" /\ UNCHANGED exitCode
       ELSE Exit(1)                          \* KeyError, main line 70
    /\ UNCHANGED <<config, lines, processed_emails, stats, log_file, emails,
                   lineNo, i, openConns, pending, hist, xline, xcand>>

\* main, lines 58-64: the confirmation prompt
Prompt ==
    /\ pc = "prompt"
    /\ \E yes \in BOOLEAN :
         IF yes
         THEN /\ pc' = "started"            \* sender.send_emails_from_csv(csv_file)
              /\ hist' = [hist EXCEPT !.started = TRUE]
              /\ UNCHANGED exitCode
         ELSE /\ Exit(0)
              /\ UNCHANGED hist
    /\ UNCHANGED <<config, lines, processed_emails, stats, log_file, emails,
                   lineNo, i, openConns, pending, xline, xcand>>

-----------------------------------------------------------------------------
(* email_sender.py: read_emails_from_csv *)

\* what open() and readlines() can do at lines 104-105: the file is gone
\* since main looked (FileNotFoundError), it cannot be decoded, or it is read
CsvOutcomes == {"FileNotFoundError", "UnicodeDecodeError", "read"}

\* send_emails_from_csv, lines 217-220: four log entries that read the
\* configuration, before the try block is entered
StartedKeys == {"smtp_host", "smtp_port", "username", "delay_seconds"}

StartRun ==
    /\ pc = "started"
    /\ IF StartedKeys \subseteq config.keys
       THEN /\ pc' = "read_open"
            /\ UNCHANGED exitCode
       ELSE Exit(1)                          \* KeyError escapes, main line 70
    /\ hist' = LogMessage(hist)
    /\ UNCHANGED <<config, lines, processed_emails, stats, log_file, emails,
                   lineNo, i, openConns, pending, xline, xcand>>

\* read_emails_from_csv, lines 100-107 and 152-157
ReadOpen ==
    /\ pc = "read_open"
    /\ emails' = <<>>
    /\ lineNo' = 0
    /\ \E outcome \in CsvOutcomes :
         IF outcome = "read"
         THEN /\ \E f \in Files : lines' = f
              /\ pc' = "read_loop"
              /\ hist' = LogMessage(hist)
         ELSE /\ lines' = <<>>
              /\ pc' = "set_total"           \* return []
              /\ hist' = [LogMessage(hist) EXCEPT !.readReturned = TRUE]
    /\ UNCHANGED <<config, processed_emails, stats, log_file, i, openConns, pending, exitCode, xline, xcand>>

\* the classification with the duplicate check of line 142 left out
ClassifyNoDedup(line, seen) ==
    IF line = <<>> THEN "empty"
    ELSE IF IsHeader(line) THEN "header"
    ELSE IF ~is_valid_email(ExtractEmail(line)) THEN "invalid"
    ELSE "valid"

\* the classification of one stripped line, lines 113-150
Classify(line, seen) ==
    IF line = <<>> THEN "empty"
    ELSE IF IsHeader(line) THEN "header"
    ELSE IF ~is_valid_email(ExtractEmail(line)) THEN "invalid"
    ELSE IF ExtractEmail(line) \in seen THEN "duplicate"
    ELSE "valid"

\* the counting with the increment of line 144 left out
CountUncountedDuplicate(st, class) ==
    CASE class = "invalid" -> [st EXCEPT !.invalid = @ + 1]
      [] OTHER -> st

\* lines 138 and 144: the counter a classification increments
Count(st, class) ==
    CASE class = "invalid" -> [st EXCEPT !.invalid = @ + 1]
      [] class = "duplicate" -> [st EXCEPT !.duplicates = @ + 1]
      [] OTHER -> st

\* one iteration of the loop at lines 109-150
ReadLine ==
    /\ pc = "read_loop"
    /\ lineNo < Len(lines)
    /\ LET line == Strip(lines[lineNo + 1])
           possible_email == ExtractEmail(line)
           class == Classify(line, processed_emails)
       IN  /\ lineNo' = lineNo + 1
           /\ stats' = Count(stats, class)
           /\ emails' = IF class = "valid" THEN Append(emails, possible_email) ELSE emails
           /\ processed_emails' = IF class = "valid"
                                  THEN processed_emails \cup {possible_email}
                                  ELSE processed_emails
           /\ hist' = IF class = "empty" THEN hist ELSE LogMessage(hist)
    /\ UNCHANGED <<pc, config, lines, log_file, i, openConns, pending,
                   exitCode, xline, xcand>>

\* lines 159-160: the loop is over, the list is returned
ReadReturn ==
    /\ pc = "read_loop"
    /\ lineNo >= Len(lines)
    /\ pc' = "set_total"
    /\ hist' = [LogMessage(hist) EXCEPT !.readReturned = TRUE]
    /\ UNCHANGED <<config, lines, processed_emails, stats, log_file, emails,
                   lineNo, i, openConns, pending, exitCode, xline, xcand>>

-----------------------------------------------------------------------------
(* email_sender.py: send_emails_from_csv and send_single_email *)

\* lines 225-229
SetTotal ==
    /\ pc = "set_total"
    /\ stats' = [stats EXCEPT !.total = Len(emails)]
    /\ IF emails = <<>>
       THEN /\ pc' = "finally"               \* return, through the finally block
            /\ i' = i
            /\ hist' = [LogMessage(hist) EXCEPT !.totalSet = TRUE]
       ELSE /\ pc' = "loop"
            /\ i' = 1
            /\ hist' = [hist EXCEPT !.totalSet = TRUE]
    /\ UNCHANGED <<config, lines, processed_emails, log_file, emails, lineNo,
                   openConns, pending, exitCode, xline, xcand>>

\* the reason the handlers of the inner try (lines 197-208) log for an exception
InnerReason(exc) ==
    CASE exc = "SMTPAuthenticationError" -> "Authentication Failed - Check credentials"
      [] exc = "SMTPConnectError" -> "Connection Error"
      [] OTHER -> "SMTP Error: str(e)"

\* the reason the handler of the outer try (lines 210-213) logs
OuterReason(exc) == "str(e)"

\* a handler that forgets to count the failure
FailedUncounted(step, exc, reason) ==
    /\ stats' = stats
    /\ hist' = [LogMessage(hist) EXCEPT !.results =
                  Append(@, [to |-> emails[i], status |-> "FAILED", step |-> step,
                             exc |-> exc, reason |-> reason])]
    /\ pc' = "after_send"

\* a handler that lets the failure end the loop
FailedEndsLoop(step, exc, reason) ==
    /\ stats' = [stats EXCEPT !.failed = @ + 1]
    /\ hist' = [LogMessage(hist) EXCEPT !.results =
                  Append(@, [to |-> emails[i], status |-> "FAILED", step |-> step,
                             exc |-> exc, reason |-> reason])]
    /\ pc' = "finally"

\* a handler of send_single_email: log FAILED, count it, return False
Failed(step, exc, reason) ==
    /\ stats' = [stats EXCEPT !.failed = @ + 1]
    /\ hist' = [LogMessage(hist) EXCEPT !.results =
                  Append(@, [to |-> emails[i], status |-> "FAILED", step |-> step,
                             exc |-> exc, reason |-> reason])]
    /\ pc' = "after_send"

\* the keys create_email_message reads
MessageKeys == {"sender_name", "username", "subject", "body"}

\* lines 232-236: the loop body starts, send_single_email is called
BeginSend ==
    /\ pc = "loop"
    /\ pc' = "message"
    /\ hist' = [LogMessage(hist) EXCEPT !.events = Append(@, <<"send", i>>)]
    /\ UNCHANGED <<config, lines, processed_emails, stats, log_file, emails,
                   lineNo, i, openConns, pending, exitCode, xline, xcand>>

\* lines 177-179, create_email_message: a missing key is a KeyError
BuildMessage ==
    /\ pc = "message"
    /\ IF MessageKeys \subseteq config.keys
       THEN /\ pc' = "connect"
            /\ UNCHANGED <<stats, hist>>
       ELSE Failed("message", "KeyError", OuterReason("KeyError"))
    /\ UNCHANGED <<config, lines, processed_emails, log_file, emails, lineNo, i,
                   openConns, pending, exitCode, xline, xcand>>

\* what smtplib.SMTP(host, port) can raise at line 182
ConnectErrors == {"SMTPConnectError", "OSError"}

\* line 182, outside the inner try
Connect ==
    /\ pc = "connect"
    /\ \/ /\ openConns' = openConns + 1
          /\ pc' = "starttls"
          /\ UNCHANGED <<stats, hist>>
       \/ /\ \E exc \in ConnectErrors : Failed("connect", exc, OuterReason(exc))
          /\ UNCHANGED openConns
    /\ UNCHANGED <<config, lines, processed_emails, log_file, emails, lineNo, i,
                   pending, exitCode, xline, xcand>>

\* line 183, outside the inner try
StartTls ==
    /\ pc = "starttls"
    /\ \/ /\ pc' = "login"
          /\ UNCHANGED <<stats, hist>>
       \/ Failed("starttls", "SMTPException", OuterReason("SMTPException"))
    /\ UNCHANGED <<config, lines, processed_emails, log_file, emails, lineNo, i,
                   openConns, pending, exitCode, xline, xcand>>

\* what server.login can raise at line 186
LoginErrors == {"SMTPAuthenticationError", "SMTPException"}

\* line 186
Login ==
    /\ pc = "login"
    /\ IF "password" \notin config.keys
       THEN Failed("login", "KeyError", InnerReason("KeyError"))
       ELSE \/ /\ pc' = "sendmail"
               /\ UNCHANGED <<stats, hist>>
            \/ \E exc \in LoginErrors : Failed("login", exc, InnerReason(exc))
    /\ UNCHANGED <<config, lines, processed_emails, log_file, emails, lineNo, i,
                   openConns, pending, exitCode, xline, xcand>>

\* lines 189-190
SendMail ==
    /\ pc = "sendmail"
    /\ \/ /\ pc' = "quit"
          /\ UNCHANGED <<stats, hist>>
       \/ Failed("sendmail", "SMTPException", InnerReason("SMTPException"))
    /\ UNCHANGED <<config, lines, processed_emails, log_file, emails, lineNo, i,
                   openConns, pending, exitCode, xline, xcand>>

\* lines 191-195: quit closes the connection, also when it raises
Quit ==
    /\ pc = "quit"
    /\ openConns' = openConns - 1
    /\ \/ /\ stats' = [stats EXCEPT !.sent = @ + 1]
          /\ hist' = [LogMessage(hist) EXCEPT !.results =
                        Append(@, [to |-> emails[i], status |-> "SENT", step |-> "quit",
                                   exc |-> "none", reason |-> ""])]
          /\ pc' = "after_send"
       \/ Failed("quit", "SMTPServerDisconnected", InnerReason("SMTPServerDisconnected"))
    /\ UNCHANGED <<config, lines, processed_emails, log_file, emails, lineNo, i,
                   pending, exitCode, xline, xcand>>

\* the test of line 239 off by one: a delay after the last recipient too
DelayDueEvery(k, n) == k <= n

\* line 239: a delay follows every recipient but the last
DelayDue(k, n) == k < n

\* lines 232 and 239-241: send_single_email has returned
AfterSend ==
    /\ pc = "after_send"
    /\ IF DelayDue(i, Len(emails)) /\ config.delay < 0
       THEN /\ pc' = "except"                \* time.sleep raises ValueError
            /\ hist' = LogMessage(hist)
            /\ i' = i
       ELSE /\ hist' = IF DelayDue(i, Len(emails))
                       THEN [LogMessage(hist) EXCEPT !.events = Append(@, <<"wait", i>>)]
                       ELSE hist
            /\ IF i < Len(emails)
               THEN pc' = "loop" /\ i' = i + 1
               ELSE pc' = "finally" /\ i' = i
    /\ UNCHANGED <<config, lines, processed_emails, stats, log_file, emails,
                   lineNo, openConns, pending, exitCode, xline, xcand>>

\* lines 243-244
ExceptHandler ==
    /\ pc = "except"
    /\ pc' = "finally"
    /\ hist' = [LogMessage(hist) EXCEPT !.critical = TRUE]
    /\ UNCHANGED <<config, lines, processed_emails, stats, log_file, emails,
                   lineNo, i, openConns, pending, exitCode, xline, xcand>>

\* line 247
FinallySummary ==
    /\ pc = "finally"
    /\ pc' = "close"
    /\ hist' = PrintSummary(hist)
    /\ UNCHANGED <<config, lines, processed_emails, stats, log_file, emails,
                   lineNo, i, openConns, pending, exitCode, xline, xcand>>

\* lines 248-249, then the return to main (or the re-raise into main line 66)
FinallyClose ==
    /\ pc = "close"
    /\ IF log_file = "open"
       THEN /\ log_file' = "closed"
            /\ hist' = [hist EXCEPT !.closes = @ + 1]
       ELSE UNCHANGED <<log_file, hist>>
    /\ Exit(0)
    /\ UNCHANGED <<config, lines, processed_emails, stats, emails, lineNo, i,
                   openConns, pending, xline, xcand>>

\* the positions inside the try block of send_emails_from_csv
TryPcs == {"read_open", "read_loop", "set_total", "loop", "message", "connect", "starttls",
           "login", "sendmail", "quit", "after_send", "except"}

\* the positions covered by the try block of main only
MainPcs == {"init", "setup_logging", "show_config", "prompt", "started",
            "finally", "close"}

\* Ctrl+C: KeyboardInterrupt is raised at the current position. No handler of
\* email_sender.py catches it (they catch Exception); inside the try block of
\* send_emails_from_csv the finally block runs, elsewhere it goes to main line 66
KeyboardInterrupt ==
    /\ pc \in TryPcs \cup MainPcs
    /\ pending' = "KeyboardInterrupt"
    /\ IF pc \in TryPcs
       THEN pc' = "finally" /\ UNCHANGED exitCode
       ELSE Exit(0)
    /\ UNCHANGED <<config, lines, processed_emails, stats, log_file, emails,
                   lineNo, i, openConns, hist, xline, xcand>>

Next ==
    \/ MainCheckCsv
    \/ LoadConfig
    \/ SetupLogging
    \/ ShowConfig
    \/ Prompt
    \/ StartRun
    \/ ReadOpen
    \/ ReadLine
    \/ ReadReturn
    \/ SetTotal
    \/ BeginSend
    \/ BuildMessage
    \/ Connect
    \/ StartTls
    \/ Login
    \/ SendMail
    \/ Quit
    \/ AfterSend
    \/ ExceptHandler
    \/ FinallySummary
    \/ FinallyClose
    \/ KeyboardInterrupt

Spec == Init /\ [][Next]_vars

-----------------------------------------------------------------------------
(* The extraction of lines 110-131 on its own, over every short line *)

\* the characters of the lines tried: a letter, the four separators, the two
\* quote characters and a blank
RawChars == {"a", ",", ";", TAB, "|", DQ, SQ, " "}

RawLines == SeqsUpTo(RawChars, MaxLineLen)

InitExtract ==
    /\ pc = "x_line"
    /\ xline \in RawLines
    /\ xcand = <<>>
    /\ config = NoConfig
    /\ lines = <<>>
    /\ processed_emails = {}
    /\ stats = [total |-> 0, sent |-> 0, failed |-> 0, invalid |-> 0, duplicates |-> 0]
    /\ log_file = "unset"
    /\ emails = <<>>
    /\ lineNo = 0
    /\ i = 0
    /\ openConns = 0
    /\ pending = "none"
    /\ exitCode = -1
    /\ hist = [events |-> <<>>, results |-> <<>>, opens |-> 0, closes |-> 0,
               summaries |-> 0, lateLogs |-> 0, critical |-> FALSE,
               readReturned |-> FALSE, totalSet |-> FALSE,
               started |-> FALSE]

\* line 110
StripLine ==
    /\ pc = "x_line"
    /\ xline' = Strip(xline)
    /\ pc' = "x_stripped"
    /\ UNCHANGED <<config, lines, processed_emails, stats, log_file, emails,
                   lineNo, i, openConns, pending, exitCode, hist, xcand>>

\* lines 113-119: continue
SkipLine ==
    /\ pc = "x_stripped"
    /\ xline = <<>> \/ IsHeader(xline)
    /\ pc' = "x_skipped"
    /\ UNCHANGED <<config, lines, processed_emails, stats, log_file, emails,
                   lineNo, i, openConns, pending, exitCode, hist, xline, xcand>>

\* lines 122-131
ExtractLine ==
    /\ pc = "x_stripped"
    /\ ~(xline = <<>> \/ IsHeader(xline))
    /\ xcand' = ExtractEmail(xline)
    /\ pc' = "x_done"
    /\ UNCHANGED <<config, lines, processed_emails, stats, log_file, emails,
                   lineNo, i, openConns, pending, exitCode, hist, xline>>

NextExtract ==
    \/ StripLine
    \/ SkipLine
    \/ ExtractLine

SpecExtract == InitExtract /\ [][NextExtract]_vars

-----------------------------------------------------------------------------
(* The reading phase on its own: read_emails_from_csv on a fresh EmailSender, *)
(* up to the assignment of its result at lines 224-225                      *)

InitRead ==
    /\ pc = "read_loop"
    /\ lines \in ReadFiles
    /\ config = [loaded |-> TRUE, keys |-> Keys, delay |-> 1]
    /\ processed_emails = {}
    /\ stats = [total |-> 0, sent |-> 0, failed |-> 0, invalid |-> 0, duplicates |-> 0]
    /\ log_file = "open"
    /\ emails = <<>>
    /\ lineNo = 0
    /\ i = 0
    /\ openConns = 0
    /\ pending = "none"
    /\ exitCode = -1
    /\ hist = [events |-> <<>>, results |-> <<>>, opens |-> 1, closes |-> 0,
               summaries |-> 0, lateLogs |-> 0, critical |-> FALSE,
               readReturned |-> FALSE, totalSet |-> FALSE,
               started |-> FALSE]
    /\ xline = <<>>
    /\ xcand = <<>>

NextRead ==
    \/ ReadLine
    \/ ReadReturn
    \/ SetTotal

SpecRead == InitRead /\ [][NextRead]_vars

-----------------------------------------------------------------------------
(* Notions the properties are stated with *)

\* the run was not cut short: no interrupt, no error caught at line 243
Uninterrupted == pending = "none" /\ ~hist.critical /\ pc # "except"

\* the program has ended and the dispatch loop had run to its end
RanToEnd == pc = "exit" /\ Uninterrupted /\ hist.summaries = 1

\* the configuration has every key and a delay time.sleep accepts
WellConfigured == config.loaded /\ config.keys = Keys /\ config.delay >= 0

Sends == SelectSeq(hist.events, LAMBDA e : e[1] = "send")
Waits == SelectSeq(hist.events, LAMBDA e : e[1] = "wait")

\* a raw line that is neither blank nor, trimmed and lowercased, a header word
Considered(raw) ==
    /\ \E k \in 1..Len(raw) : raw[k] \notin Whitespace
    /\ \A h \in HeaderWords :
         \/ Len(Strip(raw)) # Len(h)
         \/ \E k \in 1..Len(h) : LowerChar(Strip(raw)[k]) # h[k]

\* the lines consumed so far that are to be classified
ConsideredLines == {k \in 1..lineNo : Considered(lines[k])}

CandidateOf(k) == ExtractEmail(Strip(lines[k]))

\* the valid addresses among the candidates of the consumed lines
ValidCandidates ==
    {CandidateOf(k) : k \in {j \in ConsideredLines : is_valid_email(CandidateOf(j))}}

\* the consumed line on which address e first occurs
FirstLineOf(e) == MinOf({k \in ConsideredLines : CandidateOf(k) = e})

-----------------------------------------------------------------------------
(* C1 *)

\* C1, as stated (and only of runs with a complete configuration): whenever
\* the summary has been emitted, total = sent + failed and, once line 225 has
\* taken the sequence read_emails_from_csv returned, total is the length of
\* that sequence.
C1_SummaryTotals ==
    (hist.summaries >= 1 /\ WellConfigured) =>
        /\ stats.total = stats.sent + stats.failed
        /\ hist.totalSet => stats.total = Len(emails)

\* C1, amended: when the summary has been emitted, sent + failed <= total and
\* total is the length of the returned sequence (0 when the run was cut short
\* before line 225); when the run was not cut short by an interrupt or by an
\* error caught at line 243, total = sent + failed and total is the length of
\* the returned sequence, which holds no invalid and no duplicate line.
C1_SummaryTotalsAmended ==
    hist.summaries >= 1 =>
        /\ stats.sent + stats.failed <= stats.total
        /\ stats.total = IF hist.totalSet THEN Len(emails) ELSE 0
        /\ Uninterrupted =>
             /\ stats.total = stats.sent + stats.failed
             /\ stats.total = Len(emails)
             /\ stats.total = Cardinality(ConsideredLines)
                                - stats.invalid - stats.duplicates

C1_Witness ==
    /\ RanToEnd
    /\ stats.sent = 1
    /\ stats.failed = 1
    /\ stats.total = 2

-----------------------------------------------------------------------------
(* C2 *)

\* C2: at every point of read_emails_from_csv and after it, invalid +
\* duplicates + the length of the valid sequence is the number of consumed
\* lines that are neither empty nor a header, and a returned read has consumed
\* every line; so each such line got exactly one classification and the
\* other lines changed no counter.
C2_ClassificationPartition ==
    /\ stats.invalid + stats.duplicates + Len(emails) = Cardinality(ConsideredLines)
    /\ hist.readReturned => lineNo = Len(lines)

C2_Witness ==
    /\ hist.readReturned
    /\ Len(lines) = 3
    /\ \E k \in 1..3 : ~Considered(lines[k])
    /\ stats.invalid + stats.duplicates = 1
    /\ Len(emails) = 1

-----------------------------------------------------------------------------
(* C3 *)

C3_Sequence ==
    /\ \A m, n \in 1..Len(emails) : m # n => emails[m] # emails[n]
    /\ \A m \in 1..Len(emails) : is_valid_email(emails[m])
    /\ {emails[m] : m \in 1..Len(emails)} = ValidCandidates
    /\ \A m, n \in 1..Len(emails) :
         m < n => FirstLineOf(emails[m]) < FirstLineOf(emails[n])
    /\ \A m \in 1..Len(emails) : emails[m] \in processed_emails

\* C3: the valid sequence never holds an address twice (exact comparison),
\* holds only addresses that pass is_valid_email, lists them in the order of
\* their first occurrence in the input, and is contained in the deduplication
\* set, which no step ever shrinks. (Stated of every step: the sequence is as
\* described before the step, up to and including the step at line 225 that
\* takes the returned sequence.)
C3_UniqueValidFirstSeen ==
    [][C3_Sequence /\ processed_emails \subseteq processed_emails']_vars

C3_Witness ==
    /\ hist.readReturned
    /\ emails = <<AddrUpper, AddrLower>>
    /\ stats.duplicates = 2
    /\ lines[1] = AddrUpper
    /\ lines[2] # AddrLower

-----------------------------------------------------------------------------
(* C4 *)

\* C4: the dispatch attempts are those of recipients 1, 2, ... of the valid
\* sequence, each once and in order, with one recorded outcome per finished
\* attempt; while the run is not cut short the attempt of recipient i follows
\* whatever the earlier outcomes were, and a run that reaches its end has
\* attempted every recipient.
C4_OneAttemptEach ==
    /\ Len(Sends) <= Len(emails)
    /\ \A n \in 1..Len(Sends) : Sends[n] = <<"send", n>>
    /\ Len(hist.results) <= Len(Sends)
    /\ Len(hist.results) >= Len(Sends) - 1
    /\ \A n \in 1..Len(hist.results) : hist.results[n].to = emails[n]
    /\ stats.sent + stats.failed = Len(hist.results)
    /\ (Uninterrupted /\ pc = "loop") => Len(hist.results) = i - 1
    /\ (Uninterrupted /\ pc = "after_send") => Len(hist.results) = i
    /\ (RanToEnd /\ hist.readReturned) =>
          /\ Len(Sends) = Len(emails)
          /\ Len(hist.results) = Len(emails)

C4_Witness ==
    /\ RanToEnd
    /\ Len(hist.results) = 2
    /\ hist.results[1].status = "FAILED"
    /\ hist.results[2].status = "SENT"

-----------------------------------------------------------------------------
(* C5 *)

\* C5: dispatches and delays alternate (dispatch 1, delay 1, dispatch 2, ...),
\* the delay after recipient k happens only when k is not the last and
\* recipient k has its outcome, and a run of N recipients that is not cut
\* short ends with N - 1 delays (none when N <= 1).
C5_DelaysBetween ==
    /\ \A n \in 1..Len(hist.events) :
         LET e == hist.events[n]
         IN  IF e[1] = "send"
             THEN n = 2 * e[2] - 1
             ELSE /\ n = 2 * e[2]
                  /\ e[2] < Len(emails)
                  /\ Len(hist.results) >= e[2]
    /\ (RanToEnd /\ hist.readReturned) =>
          Len(Waits) = IF Len(emails) <= 1 THEN 0 ELSE Len(emails) - 1

C5_Witness ==
    /\ RanToEnd
    /\ Len(emails) = 2
    /\ hist.events = << <<"send", 1>>, <<"wait", 1>>, <<"send", 2>> >>

-----------------------------------------------------------------------------
(* C6 *)

\* C6 (of runs with a complete configuration): once send_emails_from_csv has
\* been called with the log file open, the program ends with the summary
\* emitted and the log file closed exactly once, after the summary; no log
\* entry is written after the close.
C6_LogClosedOnce ==
    /\ hist.opens <= 1
    /\ hist.closes <= 1
    /\ hist.lateLogs = 0
    /\ hist.closes = 1 => hist.summaries = 1
    /\ (pc = "exit" /\ hist.started /\ hist.opens = 1 /\ WellConfigured) =>
          /\ hist.summaries = 1
          /\ hist.closes = 1

-----------------------------------------------------------------------------
(* C7 *)

\* C7 (of runs with a complete configuration and the log file open): a
\* recipient whose connection could not be established is recorded as FAILED
\* with the reason "Connection Error", counted in failed once and not in sent.
C7_ConnectionErrorReason ==
    /\ stats.sent + stats.failed = Len(hist.results)
    /\ \A n \in 1..Len(hist.results) :
         (hist.results[n].step = "connect" /\ WellConfigured /\ log_file = "open") =>
            /\ hist.results[n].status = "FAILED"
            /\ hist.results[n].reason = "Connection Error"

-----------------------------------------------------------------------------
(* C8 *)

\* C8: with a configuration file that lacks a required key, no recipient is
\* taken from the file and no dispatch is attempted.
C8_FailFast ==
    (config.loaded /\ config.keys # Keys /\ config.delay >= 0 /\ log_file = "open") =>
        /\ emails = <<>>
        /\ hist.events = <<>>

-----------------------------------------------------------------------------
(* C9 *)

\* C9: in a run without interrupt and with a complete configuration, at most
\* one connection is open at any time, and none is open once
\* send_single_email has returned: not when the next dispatch begins, not
\* when the run ends.
C9_ConnectionsClosed ==
    (pending = "none" /\ WellConfigured /\ log_file = "open") =>
        /\ openConns <= 1
        /\ pc \in {"after_send", "loop", "except", "finally", "close", "exit"}
             => openConns = 0

-----------------------------------------------------------------------------
(* C10 *)

\* the separator that decides the split: the first of the priority order
\* that occurs in the line (0 when none does)
DecidingSeparator(line) ==
    IF \E k \in 1..Len(Separators) : Contains(line, Separators[k])
    THEN MinOf({k \in 1..Len(Separators) : Contains(line, Separators[k])})
    ELSE 0

\* the substring before the first occurrence of the deciding separator
BeforeSeparator(line) ==
    IF DecidingSeparator(line) = 0 THEN line
    ELSE LET c == Separators[DecidingSeparator(line)]
         IN  SubSeq(line, 1, (CHOOSE k \in 1..Len(line) :
                                 line[k] = c /\ \A j \in 1..(k - 1) : line[j] # c) - 1)

\* one layer of quotes: at most one quote character off each end
OneLayerOff(s) ==
    LET t == IF s # <<>> /\ Head(s) \in QuoteChars THEN Tail(s) ELSE s
    IN  IF t # <<>> /\ t[Len(t)] \in QuoteChars THEN SubSeq(t, 1, Len(t) - 1) ELSE t

\* every character of chars off both ends, one at a time
RECURSIVE Peel(_, _)
Peel(s, chars) ==
    IF s = <<>> THEN s
    ELSE IF Head(s) \in chars THEN Peel(Tail(s), chars)
    ELSE IF s[Len(s)] \in chars THEN Peel(SubSeq(s, 1, Len(s) - 1), chars)
    ELSE s

\* C10, as stated: the candidate is the substring before the first occurrence
\* of the highest-priority separator present (the whole line when none is),
\* with exactly one layer of quote characters removed.
C10_ReferenceExtraction ==
    pc = "x_done" => xcand = OneLayerOff(BeforeSeparator(xline))

\* C10, amended: the candidate is the substring before the first occurrence
\* of the highest-priority separator present (the whole line when none is),
\* with its surrounding whitespace removed and then every leading and every
\* trailing quote character removed, however many there are.
C10_ReferenceExtractionAmended ==
    pc = "x_done" =>
        xcand = Peel(Peel(BeforeSeparator(xline), Whitespace), QuoteChars)

C10_Witness ==
    /\ pc = "x_done"
    /\ Contains(xline, ";")
    /\ Contains(xline, ",")
    /\ xcand = <<"a">>
    /\ Head(xline) \in QuoteChars

=============================================================================
